---- MODULE Spec2Model ----
(***************************************************************************)
(* A model of agents/agent_ppo.py: the PPO agent `Player` (masked action   *)
(* selection, trajectory storage, GAE, the clipped-surrogate update) and   *)
(* its training loop.                                                      *)
(*                                                                         *)
(* Floating-point numbers are modelled by their class, which is all the    *)
(* code's guards (torch.isnan, torch.nan_to_num, softmax, Categorical)     *)
(* look at:                                                                *)
(*   "fin"  an ordinary finite value     "zero" the value 0                *)
(*   "nan"  NaN    "pinf" +infinity      "ninf" -infinity                  *)
(*   "fmax" / "fmin"  the largest / smallest finite float32                *)
(*   "pos"  a probability > 0                                              *)
(* The GAE recursion is modelled with exact fixed-point arithmetic.        *)
(***************************************************************************)
EXTENDS Integers, Sequences, FiniteSets, TLC

(* ---------------- Player.__init__ arguments ---------------- *)
state_size == 1
action_size == 7
\* gamma = GammaNum / GammaDen (a constructor argument)
GammaNum == 1
GammaDen == 2
\* the GAE decay 0.95 = LambdaNum / LambdaDen
LambdaNum == 19
LambdaDen == 20

(* ---------------- bounds of the model ---------------- *)
\* train(n) is called with n <= Episodes
Episodes == 2
\* the environment reports done at the latest at step MaxSteps of an episode
MaxSteps == 2
\* the rollout-only specification stops after MaxStored stored transitions
MaxStored == 1
\* env.legal_moves holds at most MaxMoves identifiers
MaxMoves == 2
\* one forward pass yields at most MaxNonFinite non-finite logits
MaxNonFinite == 1
\* a direct caller stores at most MaxApiStored transitions before learn()
MaxApiStored == 2
\* compute_returns_and_advantages is applied to trajectories of length <= MaxT
MaxT == 3

(* ---------------- float classes ---------------- *)
NonFinite == {"nan", "pinf", "ninf"}
FloatVals == {"fin"} \cup NonFinite
Idx == 0 .. (action_size - 1)

\* every subset of S with at most k elements
RECURSIVE KSubsets(_, _)
KSubsets(S, k) ==
  IF k = 0 THEN {{}}
  ELSE LET prev == KSubsets(S, k - 1)
       IN  prev \cup {s \cup {p} : s \in prev, p \in S}

isnan(x) == x = "nan"

\* torch.nan_to_num(x, nan=0.0): posinf and neginf keep their defaults, the
\* largest and the smallest finite value of the dtype
nan_to_num(x) ==
  CASE x = "nan"  -> "zero"
    [] x = "pinf" -> "fmax"
    [] x = "ninf" -> "fmin"
    [] OTHER      -> x

\* torch.FloatTensor(observation) then nan_to_num, entry by entry
sanitize(observation) == [i \in 1 .. state_size |-> nan_to_num(observation[i])]

Observations == [1 .. state_size -> FloatVals]

(* ---------------- gym_env.enums ---------------- *)
this_player_action_space ==
  {"Action.FOLD", "Action.CHECK", "Action.CALL",
   "Action.RAISE_POT", "Action.RAISE_HALF_POT", "Action.RAISE_2POT"}

\* what env.legal_moves may hold: playable actions, another Action member, the
\* Stage.SHOWDOWN marker and its raw integer value
Identifiers ==
  this_player_action_space \cup {"Action.ALL_IN", "Stage.SHOWDOWN", "int.SHOWDOWN"}

\* Action.<member>.value: the index of the member in the logits and mask arrays
ActionValue(a) ==
  CASE a = "Action.FOLD"           -> 0
    [] a = "Action.CHECK"          -> 1
    [] a = "Action.CALL"           -> 2
    [] a = "Action.RAISE_HALF_POT" -> 3
    [] a = "Action.RAISE_POT"      -> 4
    [] a = "Action.RAISE_2POT"     -> 5
    [] OTHER                       -> 6

LegalMoveSets == KSubsets(Identifiers, MaxMoves)

(* ---------------- PPOActorCritic.forward ---------------- *)
\* The logits of a batch of T inputs: a T x action_size matrix. The network's
\* parameters are not modelled; any output is possible.
Positions(T) == (1 .. T) \X Idx

NetOutputs(T) ==
  { [r \in 1 .. T |-> [c \in Idx |-> IF <<r, c>> \in s THEN f[<<r, c>>] ELSE "fin"]] :
      <<s, f>> \in UNION { {s2} \X [s2 -> NonFinite] :
                              s2 \in KSubsets(Positions(T), MaxNonFinite) } }

MaxRows == IF MaxSteps > MaxApiStored THEN MaxSteps ELSE MaxApiStored

\* the outputs by batch size, computed once
forward == [T \in 0 .. MaxRows |-> NetOutputs(T)]

\* the classes of value that occur in a logits matrix
LogitKinds(out) == UNION {{out[r][c] : c \in Idx} : r \in 1 .. Len(out)}

(* ---------------- Player.action helpers ---------------- *)
\* lines 71-77: intersect with the playable domain, then remove SHOWDOWN
AllowedActions(action_space) ==
  LET inter == this_player_action_space \cap action_space
      no_stage == inter \ {"Stage.SHOWDOWN"}
  IN  no_stage \ {"int.SHOWDOWN"}

\* a mask that lets every index through
MaskNothing(allowed) == [i \in Idx |-> "zero"]

\* lines 95-97: -inf everywhere, 0 at the value of every allowed action
Mask(allowed) ==
  [i \in Idx |-> IF \E a \in allowed : ActionValue(a) = i THEN "zero" ELSE "ninf"]

\* IEEE addition of a logit and a mask entry
AddMask(x, m) ==
  IF m = "zero" THEN x
  ELSE CASE x = "fin"  -> "ninf"
         [] x = "ninf" -> "ninf"
         [] OTHER      -> "nan"

\* torch.softmax over one row: exp(x - max) / sum
softmax(v) ==
  IF \/ \E i \in Idx : v[i] \in {"nan", "pinf"}
     \/ \A i \in Idx : v[i] = "ninf"
  THEN [i \in Idx |-> "nan"]
  ELSE [i \in Idx |-> IF v[i] = "ninf" THEN "zero" ELSE "pos"]

\* Categorical(probs) validates its argument: a row with NaN is rejected
InvalidProbs(p) == \E i \in Idx : p[i] = "nan"

\* a fallback range one index too long
RandomChoiceOffByOne == 0 .. action_size

\* line 81: random.choice(range(self.action_size))
RandomChoice == Idx

\* dist.sample(): an index of positive probability
Support(p) == {i \in Idx : p[i] = "pos"}


(* ---------------- state ---------------- *)
VARIABLES
  states, actions, log_probs, rewards, dones,  \* Player's trajectory storage
  opt_steps,        \* optimizer.step() calls so far: the version of the parameters
  pc,               \* where the caller (train, or a direct caller) stands
  episodes,         \* the argument of train
  episode,          \* train's loop variable
  state,            \* train's current observation
  episode_reward,   \* train's accumulator
  step_cap,         \* the step at which the environment reports done at the latest
  call,             \* the last call of a Player method: what it saw and how it ended
  values, t, gae, next_value, advantages, returns  \* compute_returns_and_advantages

trajectory == <<states, actions, log_probs, rewards, dones>>
trainvars == <<pc, episodes, episode, state, episode_reward, step_cap>>
gaevars == <<values, t, gae, next_value, advantages, returns>>
vars == <<states, actions, log_probs, rewards, dones, opt_steps, pc, episodes,
          episode, state, episode_reward, step_cap, call, values, t, gae,
          next_value, advantages, returns>>

NoProbs == [i \in Idx |-> "none"]
NoObservation == [i \in 1 .. state_size |-> "none"]

NoCall ==
  [op |-> "none", exc |-> "none", allowed |-> {}, net_raw |-> <<>>,
   net_input |-> <<>>, logit_kinds |-> {}, probs |-> NoProbs,
   ratio_kinds |-> {}, action |-> -1, log_prob |-> "none", len |-> 0]

\* env.step's reward: it decides nothing in action, train or learn's guards; the
\* arithmetic on rewards is that of compute_returns_and_advantages, below
EnvRewards == {1}

(* ---------------- Player.action ---------------- *)
Action(action_space, observation) ==
  LET allowed == AllowedActions(action_space)
      base == [NoCall EXCEPT !.op = "action", !.allowed = allowed,
                             !.len = Len(states)]
  IN
  /\ IF allowed = {}
     THEN \* line 81: the fallback index, with torch.tensor(0.0)
          \E i \in RandomChoice :
            call' = [base EXCEPT !.action = i, !.log_prob = "zero"]
     ELSE LET st == sanitize(observation)
              ran == [base EXCEPT !.net_raw = <<observation>>, !.net_input = <<st>>]
          IN
          IF \E i \in 1 .. state_size : isnan(st[i])
          THEN call' = [base EXCEPT !.exc = "NaNState"]
          ELSE \E out \in forward[1] :
                 LET action_logits == out[1]
                     seen == [ran EXCEPT !.logit_kinds = LogitKinds(out)]
                     mask == Mask(allowed)
                     masked_logits == [i \in Idx |-> AddMask(action_logits[i], mask[i])]
                     p == softmax(masked_logits)
                 IN
                 IF \E a \in allowed : ActionValue(a) \notin Idx
                 THEN call' = [seen EXCEPT !.exc = "IndexError"]
                 ELSE IF \E i \in Idx : isnan(action_logits[i])
                 THEN call' = [seen EXCEPT !.exc = "NaNLogits"]
                 ELSE IF InvalidProbs(p)
                 THEN call' = [seen EXCEPT !.exc = "ValueError", !.probs = p]
                 ELSE \E sampled_action \in Support(p) :
                        call' = [seen EXCEPT !.probs = p,
                                             !.action = sampled_action,
                                             !.log_prob = "fin"]
  /\ UNCHANGED <<trajectory, opt_steps>>

(* ---------------- Player.store_transition ---------------- *)
store_transition(s, a, lp, r, d) ==
  /\ states' = Append(states, s)
  /\ actions' = Append(actions, a)
  /\ log_probs' = Append(log_probs, lp)
  /\ rewards' = Append(rewards, r)
  /\ dones' = Append(dones, d)

(* ---------------- Player.learn ---------------- *)
\* a stack that accepts the empty list
stack_lenient(tensors) == FALSE

\* torch.stack of an empty list raises RuntimeError
stack_raises(tensors) == Len(tensors) = 0

\* values.squeeze() of a T x 1 tensor is 0-dimensional when T = 1, and
\* values[t] on a 0-dimensional tensor raises IndexError (line 136)
index_raises(T) == T = 1

\* line 170: exp(new_log_prob - old_log_prob), the new one being finite
Ratio(old) ==
  CASE old = "nan"  -> "nan"
    [] old = "pinf" -> "zero"
    [] old = "ninf" -> "pinf"
    [] OTHER        -> "fin"

clear_trajectory ==
  /\ states' = <<>>
  /\ actions' = <<>>
  /\ log_probs' = <<>>
  /\ rewards' = <<>>
  /\ dones' = <<>>

Learn ==
  LET T == Len(states)
      base == [NoCall EXCEPT !.op = "learn", !.len = T]
  IN
  IF stack_raises(log_probs)
  THEN /\ call' = [base EXCEPT !.exc = "RuntimeError"]
       /\ UNCHANGED <<trajectory, opt_steps>>
  ELSE LET st == [i \in 1 .. T |-> sanitize(states[i])]
           ran == [base EXCEPT !.net_raw = states, !.net_input = st]
       IN
       IF \E i \in 1 .. T : \E j \in 1 .. state_size : isnan(st[i][j])
       THEN /\ call' = [base EXCEPT !.exc = "NaNState"]
            /\ UNCHANGED <<trajectory, opt_steps>>
       ELSE \E action_logits \in forward[T] :
              LET seen == [ran EXCEPT !.logit_kinds = LogitKinds(action_logits)]
                  ratios == {Ratio(log_probs[i]) : i \in 1 .. T}
              IN
              IF "nan" \in LogitKinds(action_logits)
              THEN /\ call' = [seen EXCEPT !.exc = "NaNLogits"]
                   /\ UNCHANGED <<trajectory, opt_steps>>
              ELSE IF \E i \in 1 .. T : InvalidProbs(softmax(action_logits[i]))
              THEN /\ call' = [seen EXCEPT !.exc = "ValueError"]
                   /\ UNCHANGED <<trajectory, opt_steps>>
              ELSE IF index_raises(T)
              THEN /\ call' = [seen EXCEPT !.exc = "IndexError"]
                   /\ UNCHANGED <<trajectory, opt_steps>>
              ELSE IF "nan" \in ratios
              THEN /\ call' = [seen EXCEPT !.exc = "NaNRatios", !.ratio_kinds = ratios]
                   /\ UNCHANGED <<trajectory, opt_steps>>
              ELSE \* lines 184-193: one optimizer step, then the five clears
                   /\ call' = [seen EXCEPT !.ratio_kinds = ratios]
                   /\ opt_steps' = opt_steps + 1
                   /\ clear_trajectory

(* ---------------- Player.train ---------------- *)
TrainCall ==
  /\ pc = "idle"
  /\ \E n \in 0 .. Episodes : episodes' = n
  /\ episode' = 0
  /\ pc' = "reset"
  /\ UNCHANGED <<trajectory, opt_steps, state, episode_reward, step_cap, call, gaevars>>

\* lines 248-251: the loop head and env.reset()
TrainReset ==
  /\ pc = "reset"
  /\ IF episode < episodes
     THEN /\ \E s \in Observations : state' = s
          /\ episode_reward' = 0
          /\ pc' = "rollout"
     ELSE /\ pc' = "finished"
          /\ UNCHANGED <<state, episode_reward>>
  /\ UNCHANGED <<trajectory, opt_steps, episodes, episode, step_cap, call, gaevars>>

\* line 253: self.action(self.env.legal_moves, state, None)
TrainAct ==
  /\ pc = "rollout"
  /\ \E legal_moves \in LegalMoveSets : Action(legal_moves, state)
  /\ pc' = IF call'.exc = "none" THEN "step" ELSE "raised"
  /\ UNCHANGED <<episodes, episode, state, episode_reward, step_cap, gaevars>>

\* lines 254-258: env.step(action), store_transition, the two updates
TrainStep ==
  /\ pc = "step"
  /\ \E next_state \in Observations, reward \in EnvRewards, done \in BOOLEAN :
       /\ (Len(states) + 1 >= step_cap) => done
       /\ store_transition(state, call.action, call.log_prob, reward, done)
       /\ state' = next_state
       /\ episode_reward' = episode_reward + reward
       /\ pc' = IF done THEN "eval" ELSE "rollout"
  /\ call' = [NoCall EXCEPT !.op = "store", !.len = Len(states)]
  /\ UNCHANGED <<opt_steps, episodes, episode, step_cap, gaevars>>

\* lines 261-262: a forward pass over the stored states, its values discarded
TrainEval ==
  /\ pc = "eval"
  /\ call' = [NoCall EXCEPT !.op = "train_forward", !.len = Len(states),
                            !.net_raw = states, !.net_input = states]
  /\ pc' = "learn"
  /\ UNCHANGED <<trajectory, opt_steps, episodes, episode, state, episode_reward,
                 step_cap, gaevars>>

\* lines 263-265: self.learn(), the print, the next episode
TrainLearn ==
  /\ pc = "learn"
  /\ Learn
  /\ IF call'.exc = "none"
     THEN episode' = episode + 1 /\ pc' = "reset"
     ELSE episode' = episode /\ pc' = "raised"
  /\ UNCHANGED <<episodes, state, episode_reward, step_cap, gaevars>>

NoGae ==
  /\ values = <<>>
  /\ t = 0
  /\ gae = 0
  /\ next_value = 0
  /\ advantages = <<>>
  /\ returns = <<>>

Init ==
  /\ states = <<>>
  /\ actions = <<>>
  /\ log_probs = <<>>
  /\ rewards = <<>>
  /\ dones = <<>>
  /\ opt_steps = 0
  /\ pc = "idle"
  /\ episodes = 0
  /\ episode = 0
  /\ state = NoObservation
  /\ episode_reward = 0
  /\ step_cap = MaxSteps
  /\ call = NoCall
  /\ NoGae

Next == TrainCall \/ TrainReset \/ TrainAct \/ TrainStep \/ TrainEval \/ TrainLearn

Spec == Init /\ [][Next]_vars


(* ---------------- the rollout loop alone ---------------- *)
\* train(1) up to the end of the first rollout, against an environment that
\* reports done at step MaxStored at the latest
InitRollout ==
  /\ states = <<>>
  /\ actions = <<>>
  /\ log_probs = <<>>
  /\ rewards = <<>>
  /\ dones = <<>>
  /\ opt_steps = 0
  /\ pc = "reset"
  /\ episodes = 1
  /\ episode = 0
  /\ state = NoObservation
  /\ episode_reward = 0
  /\ step_cap = MaxStored
  /\ call = NoCall
  /\ NoGae

NextRollout == TrainReset \/ TrainAct \/ TrainStep

SpecRollout == InitRollout /\ [][NextRollout]_vars

(* ---------------- direct calls of store_transition and learn ---------------- *)
\* what a direct caller passes as log_prob: any float tensor
LogProbVals == {"fin", "zero", "nan", "pinf", "ninf"}
ApiObservations == {[i \in 1 .. state_size |-> "fin"], [i \in 1 .. state_size |-> "nan"]}
ApiActions == {0}
ApiRewards == {0}
ApiDones == {FALSE}

ApiStore ==
  /\ pc = "api"
  /\ Len(states) < MaxApiStored
  /\ \E s \in ApiObservations, a \in ApiActions, lp \in LogProbVals,
        r \in ApiRewards, d \in ApiDones :
       store_transition(s, a, lp, r, d)
  /\ call' = [NoCall EXCEPT !.op = "store", !.len = Len(states)]
  /\ UNCHANGED <<opt_steps, trainvars, gaevars>>

\* a call of learn; an exception is not caught and ends the caller
ApiLearn ==
  /\ pc = "api"
  /\ Len(states) = 0 \/ opt_steps < Episodes
  /\ Learn
  /\ pc' = IF call'.exc = "none" THEN "api" ELSE "raised"
  /\ UNCHANGED <<episodes, episode, state, episode_reward, step_cap, gaevars>>

InitApi ==
  /\ states = <<>>
  /\ actions = <<>>
  /\ log_probs = <<>>
  /\ rewards = <<>>
  /\ dones = <<>>
  /\ opt_steps = 0
  /\ pc = "api"
  /\ episodes = 0
  /\ episode = 0
  /\ state = NoObservation
  /\ episode_reward = 0
  /\ step_cap = MaxApiStored
  /\ call = NoCall
  /\ NoGae

NextApi == ApiStore \/ ApiLearn

SpecApi == InitApi /\ [][NextApi]_vars

(* ---------------- Player.compute_returns_and_advantages ---------------- *)
\* Fixed point: the number x is the integer x * One. One is a multiple of every
\* denominator MaxT iterations of the loop can produce.
One == GammaDen * ((GammaDen * LambdaDen) ^ MaxT)

Fix(x) == x * One

\* self.gamma * x
MulGamma(x) == (x * GammaNum) \div GammaDen

\* self.gamma * 0.95 * x
MulGammaLambda(x) == (x * GammaNum * LambdaNum) \div (GammaDen * LambdaDen)

\* a factor that ignores the done flag
NotDoneIgnored(d) == 1

\* (1 - self.dones[t]) of a Python bool
NotDone(d) == IF d THEN 0 ELSE 1

\* line 136
Delta(r, nv, d, v) == r + MulGamma(nv) * NotDone(d) - v

\* line 137
Gae(delta, g, d) == delta + MulGammaLambda(g) * NotDone(d)

GaeRewards == {-1, 0, 1}
GaeValues == {-1, 0, 1}

SeqsOf(S, n) == UNION {[1 .. k -> S] : k \in 1 .. n}

\* a call of compute_returns_and_advantages(values) on a stored trajectory:
\* lines 130-133 have run
InitGAE ==
  /\ rewards \in SeqsOf(GaeRewards, MaxT)
  /\ dones \in [1 .. Len(rewards) -> BOOLEAN]
  /\ values \in [1 .. Len(rewards) -> GaeValues]
  /\ states = [i \in 1 .. Len(rewards) |-> [j \in 1 .. state_size |-> "fin"]]
  /\ actions = [i \in 1 .. Len(rewards) |-> 0]
  /\ log_probs = [i \in 1 .. Len(rewards) |-> "fin"]
  /\ opt_steps = 0
  /\ pc = "gae_loop"
  /\ episodes = 0
  /\ episode = 0
  /\ state = NoObservation
  /\ episode_reward = 0
  /\ step_cap = MaxT
  /\ call = NoCall
  /\ t = Len(rewards)
  /\ gae = 0
  /\ next_value = 0
  /\ advantages = <<>>
  /\ returns = <<>>

\* lines 135-139: one iteration of the reversed loop (t is 1-based here)
GaeStep ==
  /\ pc = "gae_loop"
  /\ t >= 1
  /\ LET delta == Delta(Fix(rewards[t]), next_value, dones[t], Fix(values[t]))
     IN  /\ gae' = Gae(delta, gae, dones[t])
         /\ advantages' = <<gae'>> \o advantages
  /\ next_value' = Fix(values[t])
  /\ t' = t - 1
  /\ UNCHANGED <<trajectory, opt_steps, trainvars, call, values, returns>>

\* lines 140-141: returns = advantage + value, pairwise
GaeReturn ==
  /\ pc = "gae_loop"
  /\ t = 0
  /\ returns' = [i \in 1 .. Len(advantages) |-> advantages[i] + Fix(values[i])]
  /\ pc' = "gae_done"
  /\ UNCHANGED <<trajectory, opt_steps, episodes, episode, state, episode_reward,
                 step_cap, call, values, t, gae, next_value, advantages>>

NextGAE == GaeStep \/ GaeReturn

SpecGAE == InitGAE /\ [][NextGAE]_vars


(* ======================= the claims ======================= *)
Empty == states = <<>> /\ actions = <<>> /\ log_probs = <<>> /\ rewards = <<>> /\ dones = <<>>

AllowedIndices(allowed) == {ActionValue(a) : a \in allowed}

\* C1: when Player.action is called with a non-empty allowed set and the
\* network returns finite logits, the masked distribution is 0 at every index
\* that is not the value of an allowed action, the call returns the index of an
\* allowed action, below action_size; and every stored action is the index of a
\* playable action or, on the fallback path (log_prob 0.0), an index in
\* [0, action_size).
C1_MaskedSelection ==
  /\ (call.op = "action" /\ call.allowed # {} /\ call.logit_kinds = {"fin"}) =>
       /\ call.exc = "none"
       /\ \A i \in Idx \ AllowedIndices(call.allowed) : call.probs[i] = "zero"
       /\ call.action \in AllowedIndices(call.allowed)
       /\ call.action < action_size
  /\ \A k \in 1 .. Len(actions) :
       /\ actions[k] \in Idx
       /\ log_probs[k] # "zero" => actions[k] \in AllowedIndices(this_player_action_space)

C1_Witness ==
  /\ call.op = "action"
  /\ Cardinality(call.allowed) = 2
  /\ call.logit_kinds = {"fin"}
  /\ call.action \in AllowedIndices(call.allowed)
  /\ Cardinality({i \in Idx : call.probs[i] = "zero"}) = action_size - 2

\* C2: a call of Player.action whose allowed set is empty returns an index in
\* [0, action_size) with log_prob 0.0; it does not raise, does not run the
\* network, and leaves the parameters and the trajectory as they were, whatever
\* the observation holds.
C2_EmptyAllowedFallback ==
  [][(pc = "rollout" /\ call'.op = "action" /\ call'.allowed = {}) =>
       /\ call'.exc = "none"
       /\ call'.action \in Idx
       /\ call'.log_prob = "zero"
       /\ call'.net_input = <<>>
       /\ call'.logit_kinds = {}
       /\ UNCHANGED <<trajectory, opt_steps>>]_vars

C2_Witness ==
  /\ call.op = "action"
  /\ call.allowed = {}
  /\ state[1] = "nan"
  /\ call.action = action_size - 1
  /\ call.log_prob = "zero"

\* C3: train(n) runs every one of its n episodes to the end whatever their
\* length (one step included): it stops early only when the network has
\* returned a non-finite logit.
C3_TrainCompletesEveryEpisode ==
  pc = "raised" => call.logit_kinds \cap NonFinite # {}

\* C4: after every call of learn at the end of an episode, whether it returned
\* or raised a numerical-divergence fault, the five arrays are empty.
C4_EmptyAfterEveryLearn ==
  (call.op = "learn" /\ call.exc \in {"none", "NaNState", "NaNLogits", "NaNRatios"})
     => Empty

\* C5: learn on a stored trajectory of length T >= 1 with finite logits and
\* finite stored log-probabilities (hence finite ratios) returns without
\* raising, with the five arrays empty.
C5_LearnCompletes ==
  (/\ call.op = "learn"
   /\ call.len >= 1
   /\ call.logit_kinds = {"fin"}
   /\ \A k \in 1 .. Len(log_probs) : log_probs[k] \in {"fin", "zero"}
   /\ call.ratio_kinds \cap NonFinite = {})
     => (call.exc = "none" /\ Empty)

\* C6: whenever the logits the network returned to Player.action or to
\* Player.learn hold a non-finite value, the call raises.
C6_NonFiniteLogitsRaise ==
  (call.op \in {"action", "learn"} /\ call.logit_kinds \cap NonFinite # {})
     => call.exc # "none"

\* C7: whenever a probability ratio computed by learn (from finite logits) is
\* non-finite, learn raises, so no optimizer step follows.
C7_NonFiniteRatioRaises ==
  (/\ call.op = "learn"
   /\ call.logit_kinds = {"fin"}
   /\ call.ratio_kinds \cap NonFinite # {})
     => call.exc # "none"

\* C8: every entry the network receives (in action, in learn, in train's own
\* forward pass) is the original entry when that is finite and 0 otherwise.
C8_InputsSanitized ==
  \A i \in 1 .. Len(call.net_input) : \A j \in 1 .. state_size :
     call.net_input[i][j] =
        IF call.net_raw[i][j] = "fin" THEN "fin" ELSE "zero"

\* C9: learn on an empty trajectory is rejected, every time alike: it raises,
\* takes no optimizer step, and the five arrays stay empty.
C9_LearnOnEmptyRejected ==
  [][(pc = "api" /\ call'.op = "learn" /\ Len(states) = 0) =>
       /\ call'.exc = "RuntimeError"
       /\ opt_steps' = opt_steps
       /\ Empty'
       /\ call'.net_input = <<>>]_vars

C9_Witness ==
  /\ call.op = "learn"
  /\ call.exc = "RuntimeError"
  /\ opt_steps = 1
  /\ Empty

\* C10: in the result of compute_returns_and_advantages, a step with done = 1
\* has advantage = reward - value and return = reward, whatever follows it; a
\* step with done = 0 has advantage = reward + gamma * value_next - value
\* + gamma * 0.95 * advantage_next, the value and the advantage beyond the last
\* index being 0.
C10_GaeTruncatesAtDone ==
  pc = "gae_done" =>
    LET T == Len(rewards)
        Vnext(i) == IF i < T THEN Fix(values[i + 1]) ELSE 0
        Anext(i) == IF i < T THEN advantages[i + 1] ELSE 0
    IN  /\ Len(advantages) = T
        /\ Len(returns) = T
        /\ \A i \in 1 .. T :
             IF dones[i]
             THEN /\ advantages[i] = Fix(rewards[i]) - Fix(values[i])
                  /\ returns[i] = Fix(rewards[i])
             ELSE GammaDen * LambdaDen * (advantages[i] - Fix(rewards[i]) + Fix(values[i]))
                    = LambdaDen * GammaNum * Vnext(i) + GammaNum * LambdaNum * Anext(i)

C10_Witness ==
  /\ pc = "gae_done"
  /\ Len(rewards) = 3
  /\ dones = <<FALSE, TRUE, FALSE>>
  /\ rewards = <<1, -1, 1>>
  /\ values = <<1, 0, -1>>
  /\ advantages[2] = Fix(-1)
  /\ returns[2] = Fix(-1)

====
